---------------------------- MODULE Spec2Model ----------------------------
(***************************************************************************)
(* A model of metrics_handler/main.py: the CloudMetricsHandler that        *)
(* aggregates the raw metric points of a test run, derives                 *)
(* time_to_accuracy and total_wall_time, and computes and publishes        *)
(* regression alerts, and run_main, the entry point that drives it.        *)
(*                                                                         *)
(* Numbers are integers.  Where the program computes with float64          *)
(* (numpy mean and std) the model computes exactly: a threshold            *)
(* v_mean + k*v_stddev is kept as the exact quantities it is made of.      *)
(***************************************************************************)
EXTENDS Integers, Sequences, FiniteSets, TLC

VARIABLES
    pc,                  \* the position of the running call or of run_main
    raised,              \* the exception that left the call, or "none"
    logged,              \* the absl log lines written, as <<level, what>>
    metrics,             \* _aggregate_metrics: the list of MetricPoints
    strategy,            \* _aggregate_metrics: the strategy argument
    aggregated,          \* _aggregate_metrics: the returned MetricPoint
    permuted,            \* a permutation of metrics, aggregated again
    aggregated_permuted, \* what _aggregate_metrics returned for permuted
    raw_metrics,         \* tag -> list of MetricPoints, as collected
    tensors,             \* the tensor observations of the events directory
    tta_config,          \* metric_collection_config['time_to_accuracy']
    metrics_to_update,   \* the final metrics the derived metrics are added to
    event,               \* run_main: the decoded Pub/Sub message
    handler,             \* run_main: the CloudMetricsHandler, once constructed
    new_metrics,         \* run_main: what get_metrics_from_events_dir returned
    bigquery,            \* BigQuery: table id -> the rows of the table
    alert_policies,      \* Stackdriver: the alert policies of the project
    calls,               \* the calls this run made to the Cloud clients
    metric_name_to_alert_dict, \* add_alerts_to_stackdriver: the computed alerts
    display_name_to_alert_id,  \* add_alerts_to_stackdriver: the policies listed
    run,                 \* the number of this run of run_main
    published_before     \* history: <<op, display name>> of earlier runs' policies

aggVars == <<metrics, strategy, aggregated, permuted, aggregated_permuted>>
derivedVars == <<tta_config, metrics_to_update>>
runVars == <<event, handler, new_metrics, bigquery, alert_policies, calls,
             metric_name_to_alert_dict, display_name_to_alert_id, run,
             published_before>>
vars == <<pc, raised, logged, raw_metrics, tensors, aggVars, derivedVars, runVars>>

---------------------------------------------------------------------------
(* Bounds of the model. *)

MaxPoints == 3
MaxValue == 1
MaxTime == 1

---------------------------------------------------------------------------
(* MetricPoint = namedtuple('MetricPoint', 'metric_value wall_time') *)

MetricPoint == [metric_value : 0..MaxValue, wall_time : 0..MaxTime]

NoPoint == [metric_value |-> -1, wall_time |-> -1]

\* A dict is a function from its keys; {} is the function of no keys.
EmptyDict == [k \in {} |-> 0]

DictSet(d, key, value) ==
    [k \in DOMAIN d \cup {key} |-> IF k = key THEN value ELSE d[k]]

DictGet(d, key, default) == IF key \in DOMAIN d THEN d[key] ELSE default

PointLists(n) == UNION {[1..k -> MetricPoint] : k \in 0..n}

ListPermutations(s) ==
    {[i \in 1..Len(s) |-> s[p[i]]] : p \in Permutations(1..Len(s))}

---------------------------------------------------------------------------
(* _aggregate_metrics *)

RECURSIVE final_scan_ties_last(_, _)
final_scan_ties_last(latest_metric, rest) ==
    IF rest = <<>> THEN latest_metric
    ELSE final_scan_ties_last(
             IF Head(rest).wall_time >= latest_metric.wall_time
                 THEN Head(rest) ELSE latest_metric,
             Tail(rest))

\* for metric in metrics[1:]: if metric.wall_time > latest_metric.wall_time
RECURSIVE final_scan(_, _)
final_scan(latest_metric, rest) ==
    IF rest = <<>> THEN latest_metric
    ELSE final_scan(
             IF Head(rest).wall_time > latest_metric.wall_time
                 THEN Head(rest) ELSE latest_metric,
             Tail(rest))

RECURSIVE max_scan_by_wall_time(_, _)
max_scan_by_wall_time(max_metric, rest) ==
    IF rest = <<>> THEN max_metric
    ELSE max_scan_by_wall_time(
             IF Head(rest).wall_time > max_metric.wall_time
                 THEN Head(rest) ELSE max_metric,
             Tail(rest))

\* for metric in metrics[1:]: if metric.metric_value > max_metric.metric_value
RECURSIVE max_scan(_, _)
max_scan(max_metric, rest) ==
    IF rest = <<>> THEN max_metric
    ELSE max_scan(
             IF Head(rest).metric_value > max_metric.metric_value
                 THEN Head(rest) ELSE max_metric,
             Tail(rest))

\* for metric in metrics[1:]: if metric.metric_value < min_metric.metric_value
RECURSIVE min_scan(_, _)
min_scan(min_metric, rest) ==
    IF rest = <<>> THEN min_metric
    ELSE min_scan(
             IF Head(rest).metric_value < min_metric.metric_value
                 THEN Head(rest) ELSE min_metric,
             Tail(rest))

Strategies == {"final", "max", "min"}

\* The value returned for a known strategy and a non-empty list.
aggregate_metrics(points, strat) ==
    CASE strat = "final" -> final_scan(points[1], Tail(points))
      [] strat = "max"   -> max_scan(points[1], Tail(points))
      [] strat = "min"   -> min_scan(points[1], Tail(points))

\* The exception _aggregate_metrics leaves with, or "none": an unknown
\* strategy reaches the final else, a known one reads metrics[0] first.
aggregate_raises(points, strat) ==
    IF strat \notin Strategies THEN "ValueError"
    ELSE IF points = <<>> THEN "IndexError"
    ELSE "none"

\* One call _aggregate_metrics(metrics, strat).
AggregateMetrics(strat) ==
    /\ pc = "start"
    /\ strategy' = strat
    /\ raised' = aggregate_raises(metrics, strat)
    /\ aggregated' = IF raised' = "none" THEN aggregate_metrics(metrics, strat)
                     ELSE NoPoint
    /\ pc' = "aggregated"
    /\ UNCHANGED <<logged, metrics, permuted, aggregated_permuted, raw_metrics, tensors,
                   derivedVars, runVars>>

\* A second call, with the same strategy, on a permutation of the list.
AggregatePermuted(perm) ==
    /\ pc = "aggregated"
    /\ raised = "none"
    /\ permuted' = perm
    /\ aggregated_permuted' = aggregate_metrics(perm, strategy)
    /\ pc' = "permuted"
    /\ UNCHANGED <<raised, logged, metrics, strategy, aggregated, raw_metrics, tensors,
                   derivedVars, runVars>>

NextAgg ==
    \/ \E strat \in Strategies \cup {"mean"} : AggregateMetrics(strat)
    \/ \E perm \in ListPermutations(metrics) : AggregatePermuted(perm)

\* Every list of at most MaxPoints points, not yet aggregated.
InitAgg ==
    /\ pc = "start"
    /\ raised = "none"
    /\ logged = <<>>
    /\ metrics \in PointLists(MaxPoints)
    /\ strategy = "unset"
    /\ aggregated = NoPoint
    /\ permuted = <<>>
    /\ aggregated_permuted = NoPoint
    /\ raw_metrics = EmptyDict
    /\ tensors = <<>>
    /\ tta_config = EmptyDict
    /\ metrics_to_update = EmptyDict
    /\ event = EmptyDict
    /\ handler = EmptyDict
    /\ new_metrics = EmptyDict
    /\ bigquery = EmptyDict
    /\ alert_policies = {}
    /\ calls = <<>>
    /\ metric_name_to_alert_dict = EmptyDict
    /\ display_name_to_alert_id = EmptyDict
    /\ run = 1
    /\ published_before = {}

SpecAgg == InitAgg /\ [][NextAgg]_vars

---------------------------------------------------------------------------
(* C5: for every non-empty list, _aggregate_metrics(points, 'final')       *)
(* returns the point with the maximum wall_time, and among several points  *)
(* with that wall_time the one with the smallest index.                    *)
C5_FinalIsFirstLatest ==
    (pc \in {"aggregated", "permuted"} /\ strategy = "final" /\ raised = "none") =>
        \E i \in 1..Len(metrics) :
            /\ aggregated = metrics[i]
            /\ \A j \in 1..Len(metrics) : metrics[j].wall_time <= metrics[i].wall_time
            /\ \A j \in 1..(i - 1) : metrics[j].wall_time < metrics[i].wall_time

\* 'final' has run on a list whose latest wall_time is shared by two points
\* that differ in value.
C5_Witness ==
    /\ pc = "aggregated" /\ strategy = "final" /\ raised = "none"
    /\ \E i, j \in 1..Len(metrics) :
           /\ i < j
           /\ metrics[i].wall_time = metrics[j].wall_time
           /\ metrics[i].metric_value # metrics[j].metric_value
           /\ \A k \in 1..Len(metrics) : metrics[k].wall_time <= metrics[i].wall_time
           /\ aggregated = metrics[i]

\* The points of a list that hold the value the strategy looks for.
Extremes(points, strat) ==
    {points[i] : i \in {i \in 1..Len(points) :
        \A j \in 1..Len(points) :
            IF strat = "max" THEN points[j].metric_value <= points[i].metric_value
            ELSE points[j].metric_value >= points[i].metric_value}}

(* C6, as stated: under 'max' and 'min' every permutation of the list      *)
(* gives the same MetricPoint, metric_value and wall_time.                 *)
C6_PermutationSamePoint ==
    (pc = "permuted" /\ strategy \in {"max", "min"}) =>
        aggregated_permuted = aggregated

(* C6, amended: under 'max' and 'min' every permutation of the list gives  *)
(* the same metric_value (the extreme one), and the same MetricPoint when  *)
(* the points that hold the extreme value do not differ in wall_time; a    *)
(* singleton list returns its point.                                       *)
C6_PermutationSameValue ==
    /\ (pc = "permuted" /\ strategy \in {"max", "min"}) =>
           /\ aggregated \in Extremes(metrics, strategy)
           /\ aggregated_permuted.metric_value = aggregated.metric_value
           /\ Cardinality(Extremes(metrics, strategy)) = 1 =>
                  aggregated_permuted = aggregated
    /\ (pc \in {"aggregated", "permuted"} /\ strategy \in {"max", "min"}
            /\ Len(metrics) = 1) =>
           aggregated = metrics[1]

\* 'max' or 'min' has run on a list of three points and on a permutation
\* that moves the extreme point.
C6_Witness ==
    /\ pc = "permuted" /\ strategy \in {"max", "min"}
    /\ Len(metrics) = 3
    /\ permuted # metrics
    /\ permuted[1] # metrics[1]
    /\ aggregated = aggregated_permuted
    /\ Cardinality(Extremes(metrics, strategy)) = 1


---------------------------------------------------------------------------
(* _add_time_to_accuracy_to_metrics and _add_total_wall_time_to_metrics *)

Tags == {"accuracy", "loss"}

\* math.inf, beyond every wall_time and every difference of two.
Inf == 2000000000

\* Subtraction of floats that may be infinite: -inf - inf = -inf.
float_sub(a, b) ==
    IF a = -Inf \/ b = Inf THEN -Inf
    ELSE IF a = Inf \/ b = -Inf THEN Inf
    ELSE a - b

\* The raw metrics of a run: a list of points cut in two, the first part
\* collected under 'accuracy' and the rest under 'loss'; a tag with points
\* is a key, a tag with none is a key (an empty list) or is not.
RawMetrics ==
    {[t \in keys |-> IF t = "accuracy" THEN SubSeq(s, 1, cut)
                     ELSE SubSeq(s, cut + 1, Len(s))] :
        <<s, cut, keys>> \in
            {x \in PointLists(MaxPoints) \X (0..MaxPoints) \X SUBSET Tags :
                /\ x[2] <= Len(x[1])
                /\ (x[2] > 0) => "accuracy" \in x[3]
                /\ (x[2] < Len(x[1])) => "loss" \in x[3]}}

\* tta_config: both keys, or one of them missing, or both.
TtaConfigs ==
    {[accuracy_tag |-> "accuracy", accuracy_threshold |-> th] : th \in 0..MaxValue}
    \cup {[accuracy_tag |-> "accuracy"], [accuracy_threshold |-> MaxValue], EmptyDict}

\* for v in values: if v.metric_value >= threshold: end_wall_time = v.wall_time; break
RECURSIVE end_wall_time_scan(_, _)
end_wall_time_scan(values, threshold) ==
    IF values = <<>> THEN -1
    ELSE IF Head(values).metric_value >= threshold THEN Head(values).wall_time
    ELSE end_wall_time_scan(Tail(values), threshold)

time_to_accuracy_never_at_end(values, end_wall_time) ==
    [metric_value |-> 60 * 60 * 24 * 365, wall_time |-> end_wall_time]

\* The MetricPoint of the else branch: accuracy was never high enough.
time_to_accuracy_never(values, end_wall_time) ==
    [metric_value |-> 60 * 60 * 24 * 365, wall_time |-> values[1].wall_time]

\* The MetricPoint stored under 'time_to_accuracy' for a non-empty list.
time_to_accuracy(values, threshold) ==
    LET start_wall_time == values[1].wall_time
        end_wall_time == end_wall_time_scan(values, threshold)
    IN  IF end_wall_time > 0
        THEN [metric_value |-> end_wall_time - start_wall_time,
              wall_time |-> end_wall_time]
        ELSE time_to_accuracy_never(values, end_wall_time)

\* The observations of the accuracy tag: raw_metrics.get(tag, []).
accuracy_values(raw, config) == DictGet(raw, config.accuracy_tag, <<>>)

\* _add_time_to_accuracy_to_metrics(raw, final) under tta_config: the
\* exception it leaves with, metrics_to_update and the log after it.
add_time_to_accuracy_to_metrics(raw, config, final, log) ==
    IF ~({"accuracy_tag", "accuracy_threshold"} \subseteq DOMAIN config)
    THEN [raised |-> "ValueError: invalid time_to_accuracy config",
          metrics |-> final, logged |-> log]
    ELSE IF accuracy_values(raw, config) = <<>>
    THEN [raised |-> "ValueError: no values for accuracy tag",
          metrics |-> final, logged |-> log]
    ELSE LET values == accuracy_values(raw, config)
             threshold == config.accuracy_threshold
         IN  [raised |-> "none",
              metrics |-> DictSet(final, "time_to_accuracy",
                                  time_to_accuracy(values, threshold)),
              logged |-> IF end_wall_time_scan(values, threshold) > 0 THEN log
                         ELSE Append(log, <<"error", "accuracy never high enough">>)]

AddTimeToAccuracyToMetrics(config) ==
    /\ pc = "start"
    /\ tta_config' = config
    /\ LET after == add_time_to_accuracy_to_metrics(
                        raw_metrics, config, metrics_to_update, logged)
       IN  /\ raised' = after.raised
           /\ metrics_to_update' = after.metrics
           /\ logged' = after.logged
    /\ pc' = "time_to_accuracy"
    /\ UNCHANGED <<raw_metrics, tensors, aggVars, runVars>>

\* Every point of every tag, tag after tag.
RECURSIVE all_points(_, _)
all_points(raw, tags) ==
    IF tags = {} THEN <<>>
    ELSE LET tag == CHOOSE t \in tags : TRUE
         IN  raw[tag] \o all_points(raw, tags \ {tag})

\* The two nested loops: <<min_wall_time, max_wall_time>> after the points.
RECURSIVE wall_time_scan(_, _, _)
wall_time_scan(min_wall_time, max_wall_time, points) ==
    IF points = <<>> THEN <<min_wall_time, max_wall_time>>
    ELSE LET value == Head(points)
         IN  wall_time_scan(
                 IF value.wall_time < min_wall_time THEN value.wall_time
                 ELSE min_wall_time,
                 IF value.wall_time > max_wall_time THEN value.wall_time
                 ELSE max_wall_time,
                 Tail(points))

\* The MetricPoint stored under 'total_wall_time' for a dict with a key.
total_wall_time(raw) ==
    LET bounds == wall_time_scan(Inf, -Inf, all_points(raw, DOMAIN raw))
    IN  [metric_value |-> float_sub(bounds[2], bounds[1]), wall_time |-> bounds[2]]

\* _add_total_wall_time_to_metrics(raw, final): metrics_to_update and the
\* log after it.
add_total_wall_time_to_metrics(raw, final, log) ==
    IF DOMAIN raw = {}
    THEN [metrics |-> final,
          logged |-> Append(log, <<"warning", "empty raw_metrics">>)]
    ELSE [metrics |-> DictSet(final, "total_wall_time", total_wall_time(raw)),
          logged |-> log]

AddTotalWallTimeToMetrics ==
    /\ pc \in {"start", "time_to_accuracy"}
    /\ raised = "none"
    /\ LET after == add_total_wall_time_to_metrics(
                        raw_metrics, metrics_to_update, logged)
       IN  /\ metrics_to_update' = after.metrics
           /\ logged' = after.logged
    /\ pc' = "total_wall_time"
    /\ UNCHANGED <<raised, raw_metrics, tensors, tta_config, aggVars, runVars>>

NextDerived ==
    \/ \E config \in TtaConfigs : AddTimeToAccuracyToMetrics(config)
    \/ AddTotalWallTimeToMetrics

\* Every raw metrics dict of at most MaxPoints points, nothing derived yet.
InitDerived ==
    /\ pc = "start"
    /\ raised = "none"
    /\ logged = <<>>
    /\ metrics = <<>>
    /\ strategy = "unset"
    /\ aggregated = NoPoint
    /\ permuted = <<>>
    /\ aggregated_permuted = NoPoint
    /\ raw_metrics \in RawMetrics
    /\ tensors = <<>>
    /\ tta_config = EmptyDict
    /\ metrics_to_update = EmptyDict
    /\ event = EmptyDict
    /\ handler = EmptyDict
    /\ new_metrics = EmptyDict
    /\ bigquery = EmptyDict
    /\ alert_policies = {}
    /\ calls = <<>>
    /\ metric_name_to_alert_dict = EmptyDict
    /\ display_name_to_alert_id = EmptyDict
    /\ run = 1
    /\ published_before = {}

SpecDerived == InitDerived /\ [][NextDerived]_vars

---------------------------------------------------------------------------
\* _add_time_to_accuracy_to_metrics has stored a point for a non-empty list.
TtaStored ==
    /\ pc \in {"time_to_accuracy", "total_wall_time"}
    /\ {"accuracy_tag", "accuracy_threshold"} \subseteq DOMAIN tta_config
    /\ accuracy_values(raw_metrics, tta_config) # <<>>

\* The indices of the points that meet the threshold.
Reaching ==
    LET values == accuracy_values(raw_metrics, tta_config)
    IN  {i \in 1..Len(values) :
            values[i].metric_value >= tta_config.accuracy_threshold}

(* C4: when some point of the accuracy tag has value >= accuracy_threshold, *)
(* with T the wall_time of the first such point and T0 the wall_time of     *)
(* the first point, metrics['time_to_accuracy'] is                          *)
(* MetricPoint(T - T0, T), for every T, T = 0 included.                     *)
C4_TimeToAccuracyReached ==
    (TtaStored /\ Reaching # {}) =>
        LET values == accuracy_values(raw_metrics, tta_config)
            first == CHOOSE i \in Reaching : \A j \in Reaching : i <= j
        IN  /\ raised = "none"
            /\ "time_to_accuracy" \in DOMAIN metrics_to_update
            /\ metrics_to_update["time_to_accuracy"] =
                   [metric_value |-> values[first].wall_time - values[1].wall_time,
                    wall_time |-> values[first].wall_time]

(* C8: when no point of the non-empty accuracy list has value >=            *)
(* accuracy_threshold, metrics['time_to_accuracy'] is the sentinel          *)
(* 60*60*24*365 with the first point's wall_time, an error is logged and    *)
(* nothing is raised.                                                       *)
C8_TimeToAccuracyNeverReached ==
    (TtaStored /\ Reaching = {}) =>
        /\ raised = "none"
        /\ "time_to_accuracy" \in DOMAIN metrics_to_update
        /\ metrics_to_update["time_to_accuracy"] =
               [metric_value |-> 60 * 60 * 24 * 365,
                wall_time |-> accuracy_values(raw_metrics, tta_config)[1].wall_time]
        /\ \E i \in 1..Len(logged) : logged[i][1] = "error"

\* The threshold was never reached on a list of several points whose first
\* wall_time is not the last one.
C8_Witness ==
    /\ TtaStored /\ Reaching = {}
    /\ pc = "time_to_accuracy"
    /\ LET values == accuracy_values(raw_metrics, tta_config)
       IN  /\ Len(values) >= 2
           /\ values[1].wall_time # values[Len(values)].wall_time
           /\ metrics_to_update["time_to_accuracy"].wall_time = values[1].wall_time

\* The wall_times of all points of all tags.
AllWallTimes ==
    {raw_metrics[t][i].wall_time : <<t, i>> \in
        {x \in (DOMAIN raw_metrics) \X (1..MaxPoints) : x[2] <= Len(raw_metrics[x[1]])}}

(* C7: _add_total_wall_time_to_metrics stores MetricPoint(max - min, max)   *)
(* under 'total_wall_time', min and max being the smallest and largest      *)
(* wall_time over all points of all tags, and when the raw series holds no  *)
(* point at all it adds no key and changes nothing.                         *)
C7_TotalWallTime ==
    (pc = "total_wall_time") =>
        IF AllWallTimes = {}
        THEN "total_wall_time" \notin DOMAIN metrics_to_update
        ELSE LET min == CHOOSE t \in AllWallTimes : \A u \in AllWallTimes : t <= u
                 max == CHOOSE t \in AllWallTimes : \A u \in AllWallTimes : t >= u
             IN  /\ "total_wall_time" \in DOMAIN metrics_to_update
                 /\ metrics_to_update["total_wall_time"] =
                        [metric_value |-> max - min, wall_time |-> max]

---------------------------------------------------------------------------
(* run_main: the decoded message, its validation, the handler *)

\* A JSON value of the message: null, a string or an object (a dict).
JsonNull == [type |-> "null"]
JsonString(text) == [type |-> "string", value |-> text]
JsonObject(dict) == [type |-> "object", value |-> dict]

\* Python's truth of a JSON value: None, '' and {} are false.
truthy(v) ==
    CASE v.type = "null"   -> FALSE
      [] v.type = "string" -> v.value # ""
      [] v.type = "object" -> DOMAIN v.value # {}

\* event.get(key)
event_get(ev, key) == DictGet(ev, key, JsonNull)

validation_error_either_config(ev) ==
    IF ~truthy(event_get(ev, "regression_test_config"))
           \/ ~truthy(event_get(ev, "metric_collection_config"))
    THEN "ValueError: configs were both null"
    ELSE IF ~(/\ truthy(event_get(ev, "model_dir"))
              /\ truthy(event_get(ev, "test_name"))
              /\ truthy(event_get(ev, "logs_link"))
              /\ truthy(event_get(ev, "job_name")))
    THEN "ValueError: message must contain 4 required fields"
    ELSE "none"

\* The two checks of run_main before the handler is constructed: the
\* ValueError raised, or "none".
validation_error(ev) ==
    IF ~truthy(event_get(ev, "regression_test_config"))
           /\ ~truthy(event_get(ev, "metric_collection_config"))
    THEN "ValueError: configs were both null"
    ELSE IF ~(/\ truthy(event_get(ev, "model_dir"))
              /\ truthy(event_get(ev, "test_name"))
              /\ truthy(event_get(ev, "logs_link"))
              /\ truthy(event_get(ev, "job_name")))
    THEN "ValueError: message must contain 4 required fields"
    ELSE "none"

\* config or {}
config_or_empty(v) == IF truthy(v) THEN v.value ELSE EmptyDict

\* The elements of a list.
Range(list) == {list[i] : i \in 1..Len(list)}

\* __init__: self.regression_metrics, the set of an opt-in list that is
\* true (given and not empty), None otherwise.
regression_metrics(regression_alert_config) ==
    IF DictGet(regression_alert_config, "metric_opt_in_list", <<>>) # <<>>
    THEN [is_none |-> FALSE,
          names |-> Range(regression_alert_config.metric_opt_in_list)]
    ELSE [is_none |-> TRUE, names |-> {}]

\* `self.regression_metrics and metric_name not in self.regression_metrics`
opted_out(h, metric_name) ==
    /\ ~h.regression_metrics.is_none
    /\ h.regression_metrics.names # {}
    /\ metric_name \notin h.regression_metrics.names

\* CloudMetricsHandler(test_name, events_dir, logs_link, ...)
CloudMetricsHandler(ev) ==
    [test_name |-> event_get(ev, "test_name").value,
     events_dir |-> event_get(ev, "model_dir").value,
     stackdriver_logs_link |-> event_get(ev, "logs_link").value,
     job_name |-> event_get(ev, "job_name").value,
     metric_collection_config |->
         config_or_empty(event_get(ev, "metric_collection_config")),
     regression_alert_config |->
         config_or_empty(event_get(ev, "regression_test_config")),
     regression_metrics |->
         regression_metrics(config_or_empty(event_get(ev, "regression_test_config")))]

Call(client, op, arg) == [client |-> client, op |-> op, arg |-> arg]

\* The clients __init__ constructs.
client_constructions ==
    <<Call("google.auth", "default", ""),
      Call("bigquery", "Client", ""),
      Call("gcs", "Client", ""),
      Call("monitoring", "MetricServiceClient", ""),
      Call("alert", "AlertPolicyServiceClient", ""),
      Call("notification", "NotificationChannelServiceClient", "")>>

\* run_main up to the constructed handler.
RunMainStart ==
    /\ pc = "start"
    /\ raised' = validation_error(event)
    /\ IF raised' = "none"
       THEN /\ handler' = CloudMetricsHandler(event)
            /\ calls' = calls \o client_constructions
            /\ pc' = "constructed"
       ELSE /\ pc' = "raised"
            /\ UNCHANGED <<handler, calls>>
    /\ logged' = Append(logged, <<"info", "decoded pubsub message">>)
    /\ UNCHANGED <<raw_metrics, tensors, aggVars, derivedVars, event, new_metrics, bigquery,
                   alert_policies, metric_name_to_alert_dict,
                   display_name_to_alert_id, run, published_before>>

---------------------------------------------------------------------------
(* get_metrics_from_events_dir *)

\* First pass: the points of every tag not in tags_to_ignore.
collected_metrics(raw, collection_config) ==
    LET tags_to_ignore == Range(DictGet(collection_config, "tags_to_ignore", <<>>))
    IN  [tag \in DOMAIN raw \ tags_to_ignore |-> raw[tag]]

\* tag_to_custom_aggregation_strategies.get(tag, default strategies)
strategies_of(collection_config, tag) ==
    DictGet(DictGet(collection_config, "metric_to_aggregation_strategies", EmptyDict),
            tag, collection_config.default_aggregation_strategies)

\* Every <<tag, strategy>> the second pass aggregates.
tag_strategies(raw, collection_config) ==
    UNION {{<<tag, strategies_of(collection_config, tag)[i]>> :
               i \in 1..Len(strategies_of(collection_config, tag))} :
           tag \in DOMAIN raw}

\* '{}_{}'.format(tag, strategy)
aggregated_key(tag, strat) == tag \o "_" \o strat

\* Second pass: final_metrics, one MetricPoint per tag and strategy.
aggregated_metrics(raw, collection_config) ==
    LET pairs == tag_strategies(raw, collection_config)
    IN  [key \in {aggregated_key(p[1], p[2]) : p \in pairs} |->
            LET p == CHOOSE q \in pairs : aggregated_key(q[1], q[2]) = key
            IN  aggregate_metrics(raw[p[1]], p[2])]

\* The exceptions the second pass can leave with: the default strategies
\* are looked up for every tag, and every aggregation may raise.
aggregation_errors(raw, collection_config) ==
    IF DOMAIN raw = {} THEN {}
    ELSE IF "default_aggregation_strategies" \notin DOMAIN collection_config
    THEN {"KeyError: default_aggregation_strategies"}
    ELSE {aggregate_raises(raw[p[1]], p[2]) :
              p \in tag_strategies(raw, collection_config)} \ {"none"}

\* np.frombuffer(tensor_content, dtype).tolist(): the buffer read as items
\* of itemsize bytes each, little-endian; ValueError when the size of the
\* buffer is not a multiple of the size of an item.
RECURSIVE little_endian(_)
little_endian(bytes) ==
    IF bytes = <<>> THEN 0 ELSE Head(bytes) + 256 * little_endian(Tail(bytes))

frombuffer(tensor_content, itemsize) ==
    IF Len(tensor_content) % itemsize # 0
    THEN [raised |-> "ValueError: buffer size must be a multiple of element size",
          val |-> <<>>]
    ELSE [raised |-> "none",
          val |-> [i \in 1..(Len(tensor_content) \div itemsize) |->
                      little_endian(SubSeq(tensor_content, (i - 1) * itemsize + 1,
                                           i * itemsize))]]

\* `assert len(val) == 1`: the AssertionError, which no except clause of
\* the loop catches, or "none".
one_value_asserted(val) == IF Len(val) = 1 THEN "none" ELSE "AssertionError"

\* The loop over the tensors of the 'new-style' runs: the exception that
\* leaves it, raw_metrics and the log after it.
RECURSIVE collect_tensors(_, _, _, _)
collect_tensors(tensor_events, tags_to_ignore, raw, log) ==
    IF tensor_events = <<>> THEN [raised |-> "none", raw |-> raw, logged |-> log]
    ELSE LET t == Head(tensor_events)
             decoded == frombuffer(t.tensor_content, t.itemsize)
             failure == IF decoded.raised # "none" THEN decoded.raised
                        ELSE one_value_asserted(decoded.val)
         IN  IF t.tag \in tags_to_ignore
             THEN collect_tensors(Tail(tensor_events), tags_to_ignore, raw, log)
             ELSE IF failure = "none"
             THEN collect_tensors(
                      Tail(tensor_events), tags_to_ignore,
                      DictSet(raw, t.tag,
                              Append(DictGet(raw, t.tag, <<>>),
                                     [metric_value |-> decoded.val[1],
                                      wall_time |-> t.wall_time])),
                      log)
             ELSE IF failure = "AssertionError"
             THEN [raised |-> "AssertionError", raw |-> raw, logged |-> log]
             ELSE collect_tensors(Tail(tensor_events), tags_to_ignore, raw,
                                  Append(log, <<"error", "unable to parse tag", t.tag>>))

\* What the call can end with: the exception, the metrics returned and the
\* log, given the scalars and the tensors the events directory holds.
get_metrics_from_events_dir(raw_events, tensor_events, collection_config, log) ==
    LET first_pass ==
            collect_tensors(
                tensor_events,
                Range(DictGet(collection_config, "tags_to_ignore", <<>>)),
                collected_metrics(raw_events, collection_config), log)
        raw == first_pass.raw
        errors == aggregation_errors(raw, collection_config)
    IN  IF first_pass.raised # "none"
        THEN {[raised |-> first_pass.raised, metrics |-> EmptyDict,
               logged |-> first_pass.logged]}
        ELSE IF errors # {}
        THEN {[raised |-> e, metrics |-> EmptyDict, logged |-> first_pass.logged] :
                 e \in errors}
        ELSE LET final == aggregated_metrics(raw, collection_config)
                 tta == IF "time_to_accuracy" \in DOMAIN collection_config
                        THEN add_time_to_accuracy_to_metrics(
                                 raw, collection_config.time_to_accuracy, final,
                                 first_pass.logged)
                        ELSE [raised |-> "none", metrics |-> final,
                              logged |-> first_pass.logged]
                 total == add_total_wall_time_to_metrics(raw, tta.metrics, tta.logged)
             IN  IF tta.raised # "none"
                 THEN {[raised |-> tta.raised, metrics |-> EmptyDict,
                        logged |-> tta.logged]}
                 ELSE {[raised |-> "none", metrics |-> total.metrics,
                        logged |-> total.logged]}

GetMetricsFromEventsDir ==
    /\ pc = "constructed"
    /\ \E outcome \in get_metrics_from_events_dir(
                          raw_metrics, tensors, handler.metric_collection_config,
                          logged) :
           /\ raised' = outcome.raised
           /\ new_metrics' = outcome.metrics
           /\ logged' = outcome.logged
    /\ calls' = Append(calls, Call("event_multiplexer", "AddRunsFromDirectory",
                                   handler.events_dir))
    /\ pc' = IF raised' = "none" THEN "collected" ELSE "raised"
    /\ UNCHANGED <<raw_metrics, tensors, aggVars, derivedVars, event, handler, bigquery,
                   alert_policies, metric_name_to_alert_dict,
                   display_name_to_alert_id, run, published_before>>

---------------------------------------------------------------------------
(* add_new_metrics_to_bigquery *)

\* '{}.{}.{}'.format(self.project, dataset_name, table_name)
get_table_id(dataset_name, table_name) ==
    "project" \o "." \o dataset_name \o "." \o table_name

\* The keys of a dict, as a list.
RECURSIVE key_list(_)
key_list(keys) ==
    IF keys = {} THEN <<>>
    ELSE LET key == CHOOSE k \in keys : TRUE
         IN  <<key>> \o key_list(keys \ {key})

\* rows_to_insert: one row per aggregated metric.  A wall_time is a whole
\* number of seconds here, which the '%Y-%m-%d %H:%M:%S' timestamp keeps.
rows_to_insert(h, aggregated_metrics_dict) ==
    LET keys == key_list(DOMAIN aggregated_metrics_dict)
    IN  [i \in 1..Len(keys) |->
            [test_name |-> h.test_name,
             metric_name |-> keys[i],
             metric_value |-> aggregated_metrics_dict[keys[i]].metric_value,
             timestamp |-> aggregated_metrics_dict[keys[i]].wall_time,
             stackdriver_logs_link |-> h.stackdriver_logs_link]]

insert_rows_errors_raised(insert_fails) ==
    IF insert_fails
    THEN [raised |-> "PersistenceError: insert_rows", log |-> <<>>]
    ELSE [raised |-> "none", log |-> <<<<"info", "added metrics to bigquery">>>>]

\* `if errors == []: logging.info(...) else: logging.error(...)`: what the
\* method raises and logs after insert_rows returned.
insert_rows_errors(insert_fails) ==
    [raised |-> "none",
     log |-> IF insert_fails
             THEN <<<<"error", "failed to add metrics to bigquery">>>>
             ELSE <<<<"info", "added metrics to bigquery">>>>]

\* insert_rows reports errors or does not: the failure is BigQuery's.
AddNewMetricsToBigquery(insert_fails) ==
    /\ pc = "collected"
    /\ LET config == handler.metric_collection_config
       IN  IF ~DictGet(config, "write_to_bigquery", FALSE)
           THEN /\ ~insert_fails
                /\ logged' = Append(logged, <<"info", "skipping BigQuery">>)
                /\ pc' = "persisted"
                /\ UNCHANGED <<raised, bigquery, calls>>
           ELSE IF DOMAIN new_metrics = {}
           THEN /\ ~insert_fails
                /\ logged' = Append(logged, <<"warning", "no metrics for BigQuery">>)
                /\ pc' = "persisted"
                /\ UNCHANGED <<raised, bigquery, calls>>
           ELSE IF ~({"bigquery_dataset_name", "bigquery_table_name"}
                         \subseteq DOMAIN config)
           THEN /\ ~insert_fails
                /\ raised' = "KeyError: bigquery_dataset_name"
                /\ pc' = "raised"
                /\ UNCHANGED <<logged, bigquery, calls>>
           ELSE LET table_id == get_table_id(config.bigquery_dataset_name,
                                             config.bigquery_table_name)
                    rows == DictGet(bigquery, table_id, <<>>)
                IN  /\ bigquery' =
                           DictSet(bigquery, table_id,
                                   IF insert_fails THEN rows
                                   ELSE rows \o rows_to_insert(handler, new_metrics))
                    /\ logged' = Append(logged, <<"info", "rows to insert">>)
                                     \o insert_rows_errors(insert_fails).log
                    /\ calls' = calls \o
                           <<Call("bigquery", "create_dataset",
                                  config.bigquery_dataset_name),
                             Call("bigquery", "create_table", table_id),
                             Call("bigquery", "get_table", table_id),
                             Call("bigquery", "insert_rows", table_id)>>
                    /\ raised' = insert_rows_errors(insert_fails).raised
                    /\ pc' = IF raised' = "none" THEN "persisted" ELSE "raised"
    /\ UNCHANGED <<raw_metrics, tensors, aggVars, derivedVars, event, handler, new_metrics,
                   alert_policies, metric_name_to_alert_dict,
                   display_name_to_alert_id, run, published_before>>

---------------------------------------------------------------------------
(* add_new_metrics_to_stackdriver *)

\* '{}/{}/{}'.format('custom.googleapis.com/cloudtpu', test_name, metric_name)
metric_name_to_metric_id(h, metric_name) ==
    "custom.googleapis.com/cloudtpu" \o "/" \o h.test_name \o "/" \o metric_name

\* series_list: one TimeSeries per metric the opt-in list does not exclude.
series_list(h, new_metrics_dict) ==
    {[metric_name |-> m,
      metric_type |-> metric_name_to_metric_id(h, m),
      double_value |-> new_metrics_dict[m].metric_value,
      end_time |-> new_metrics_dict[m].wall_time] :
        m \in {k \in DOMAIN new_metrics_dict : ~opted_out(h, k)}}

AddNewMetricsToStackdriver ==
    /\ pc = "persisted"
    /\ IF ~DictGet(handler.regression_alert_config, "write_to_stackdriver", FALSE)
       THEN /\ logged' = Append(logged, <<"info", "skipping metrics to Stackdriver">>)
            /\ UNCHANGED calls
       ELSE /\ calls' = Append(calls, Call("monitoring", "create_time_series",
                                          series_list(handler, new_metrics)))
            /\ logged' = Append(logged, <<"info", "added metrics to stackdriver">>)
    /\ pc' = "published"
    /\ UNCHANGED <<raised, raw_metrics, tensors, aggVars, derivedVars, event, handler,
                   new_metrics, bigquery, alert_policies, metric_name_to_alert_dict,
                   display_name_to_alert_id, run, published_before>>

---------------------------------------------------------------------------
(* _compute_alert_bounds *)

\* for row in rows_iter: the rows of this test, grouped by metric_name.
get_metrics_history_from_bigquery(rows, test_name) ==
    LET of_test == SelectSeq(rows, LAMBDA row : row.test_name = test_name)
        points(metric_name) ==
            LET of_metric == SelectSeq(of_test,
                                       LAMBDA row : row.metric_name = metric_name)
            IN  [i \in 1..Len(of_metric) |->
                    [metric_value |-> of_metric[i].metric_value,
                     wall_time |-> of_metric[i].timestamp]]
    IN  [m \in {of_test[i].metric_name : i \in 1..Len(of_test)} |-> points(m)]

history_without_latest_run(metrics_history, new_metrics_dict) == metrics_history

\* "Add the metrics from the latest run": every new metric is appended to
\* the history of its name.
history_with_latest_run(metrics_history, new_metrics_dict) ==
    [m \in DOMAIN metrics_history \cup DOMAIN new_metrics_dict |->
        IF m \in DOMAIN new_metrics_dict
        THEN Append(DictGet(metrics_history, m, <<>>), new_metrics_dict[m])
        ELSE metrics_history[m]]

\* The notification channels of the project.
NotificationChannels == {[name |-> "notificationChannels/1", display_name |-> "oncall"]}

\* _get_notification_channels: the names of the channels found.
get_notification_channels(config) ==
    IF "notification_channel_display_names" \in DOMAIN config
    THEN {nc.name : nc \in {c \in NotificationChannels :
              c.display_name \in Range(config.notification_channel_display_names)}}
    ELSE {}

\* What _get_notification_channels logs: an error unless every name was
\* found, a warning when no name is configured.
notification_channels_log(config) ==
    IF "notification_channel_display_names" \notin DOMAIN config
    THEN <<<<"warning", "no notification channels set">>>>
    ELSE IF Range(config.notification_channel_display_names) # {}
            /\ Range(config.notification_channel_display_names)
                   \subseteq {c.display_name : c \in NotificationChannels}
    THEN <<>>
    ELSE <<<<"error", "no notification channel found">>>>

RECURSIVE sum(_)
sum(numbers) == IF numbers = <<>> THEN 0 ELSE Head(numbers) + sum(Tail(numbers))

\* [v.metric_value for v in metric_value_list]
metric_values_of(metric_value_list) ==
    [i \in 1..Len(metric_value_list) |-> metric_value_list[i].metric_value]

\* eval(threshold_expr, {v_mean, v_stddev}) for an expression
\* v_mean + k*v_stddev, written [stddev_coeff |-> k].  With n values of
\* sum s and sum of squares q, v_mean = s/n and v_stddev = sqrt(n*q - s*s)/n:
\* the threshold is (sum + stddev_coeff * sqrt(radicand)) / n.
regression_threshold(threshold_expr, metric_values) ==
    LET n == Len(metric_values)
        s == sum(metric_values)
        q == sum([i \in 1..n |-> metric_values[i] * metric_values[i]])
    IN  [n |-> n, sum |-> s, radicand |-> n * q - s * s,
         stddev_coeff |-> threshold_expr.stddev_coeff]

\* 'MetricOutsideExpectedBounds__TestName:{}__MetricName:{}'
metric_name_to_alert_display_name(h, metric_name) ==
    "MetricOutsideExpectedBounds__TestName:" \o h.test_name
        \o "__MetricName:" \o metric_name

below_minimum_or_equal(metric_values, config) ==
    Len(metric_values) <= config.min_num_datapoints_before_alerting

\* len(metric_values) < min_num_datapoints_before_alerting
below_minimum(metric_values, config) ==
    Len(metric_values) < config.min_num_datapoints_before_alerting

\* The names the loop computes an alert for.
alerted_names(h, metrics_history) ==
    LET config == h.regression_alert_config
        metrics_to_ignore == Range(DictGet(config, "metrics_to_ignore", <<>>))
    IN  {m \in DOMAIN metrics_history \ metrics_to_ignore :
            ~below_minimum(metric_values_of(metrics_history[m]), config)}

\* `overrides.get(metric_name) or config[base]`
override_or_base(config, overrides, base, metric_name) ==
    IF metric_name \in DOMAIN DictGet(config, overrides, EmptyDict)
    THEN config[overrides][metric_name]
    ELSE config[base]

\* The AlertPolicy built for one metric.
new_alert(h, metric_name, metric_value_list) ==
    LET config == h.regression_alert_config
    IN  [name |-> 0,
         display_name |-> metric_name_to_alert_display_name(h, metric_name),
         comparison |-> override_or_base(config, "comparison_overrides",
                                         "base_comparison", metric_name),
         threshold_value |->
             regression_threshold(
                 override_or_base(config, "threshold_expression_overrides",
                                  "base_threshold_expression", metric_name),
                 metric_values_of(metric_value_list)),
         filter |-> "metric.type=\"" \o metric_name_to_metric_id(h, metric_name)
                        \o "\" AND resource.type=\"gce_instance\"",
         notification_channels |-> get_notification_channels(config)]

\* metric_name_to_alert, given the rows list_rows returned.
compute_alert_bounds(h, rows, new_metrics_dict) ==
    LET metrics_history ==
            history_with_latest_run(
                get_metrics_history_from_bigquery(rows, h.test_name),
                new_metrics_dict)
    IN  [m \in alerted_names(h, metrics_history) |->
            new_alert(h, m, metrics_history[m])]

\* The KeyError _compute_alert_bounds leaves with when the config lacks a
\* key it reads, or "none".
compute_alert_bounds_raises(h, rows, new_metrics_dict) ==
    LET config == h.regression_alert_config
        metrics_history ==
            history_with_latest_run(
                get_metrics_history_from_bigquery(rows, h.test_name),
                new_metrics_dict)
        considered == DOMAIN metrics_history
                          \ Range(DictGet(config, "metrics_to_ignore", <<>>))
    IN  IF considered # {} /\ "min_num_datapoints_before_alerting" \notin DOMAIN config
        THEN "KeyError: min_num_datapoints_before_alerting"
        ELSE IF \E m \in alerted_names(h, metrics_history) :
                    /\ m \notin DOMAIN DictGet(config, "threshold_expression_overrides",
                                               EmptyDict)
                    /\ "base_threshold_expression" \notin DOMAIN config
        THEN "KeyError: base_threshold_expression"
        ELSE IF \E m \in alerted_names(h, metrics_history) :
                    /\ m \notin DOMAIN DictGet(config, "comparison_overrides", EmptyDict)
                    /\ "base_comparison" \notin DOMAIN config
        THEN "KeyError: base_comparison"
        ELSE "none"

---------------------------------------------------------------------------
(* add_alerts_to_stackdriver *)

listing_by_filter(policies) ==
    {listing \in [{p.filter : p \in policies} -> {p.name : p \in policies}] :
        \A f \in DOMAIN listing :
            \E p \in policies : p.filter = f /\ p.name = listing[f]}

\* display_name_to_alert_id after the loop over list_alert_policies: each
\* display name with the name of a policy that carries it (the last one
\* listed, whichever the service lists last).
listing_by_display_name(policies) ==
    {listing \in [{p.display_name : p \in policies} -> {p.name : p \in policies}] :
        \A d \in DOMAIN listing :
            \E p \in policies : p.display_name = d /\ p.name = listing[d]}

\* The name the service gives a created policy.
fresh_name(policies) ==
    IF policies = {} THEN 1
    ELSE 1 + (CHOOSE n \in {p.name : p \in policies} :
                  \A p \in policies : p.name <= n)

\* update_alert_policy: the policy of that name is replaced.
update_alert_policy(policies, alert) ==
    {p \in policies : p.name # alert.name} \cup {alert}

\* create_alert_policy: a policy is added under a fresh name.
create_alert_policy(policies, alert) ==
    policies \cup {[alert EXCEPT !.name = fresh_name(policies)]}

\* "For each bound that we computed, update or create a corresponding
\* policy": the policies and the calls after the alerts of metric_names.
RECURSIVE update_or_create(_, _, _, _, _, _)
update_or_create(h, metric_names, alerts, listing, policies, made) ==
    IF metric_names = <<>> THEN [policies |-> policies, calls |-> made]
    ELSE LET metric_name == Head(metric_names)
             display_name == metric_name_to_alert_display_name(h, metric_name)
         IN  IF opted_out(h, metric_name)
             THEN update_or_create(h, Tail(metric_names), alerts, listing,
                                   policies, made)
             ELSE IF display_name \in DOMAIN listing
             THEN LET alert == [alerts[metric_name] EXCEPT
                                    !.name = listing[display_name]]
                  IN  update_or_create(
                          h, Tail(metric_names), alerts, listing,
                          update_alert_policy(policies, alert),
                          Append(made, [client |-> "alert",
                                        op |-> "update_alert_policy",
                                        arg |-> alert.display_name,
                                        name |-> alert.name,
                                        metric_name |-> metric_name]))
             ELSE update_or_create(
                      h, Tail(metric_names), alerts, listing,
                      create_alert_policy(policies, alerts[metric_name]),
                      Append(made, [client |-> "alert",
                                    op |-> "create_alert_policy",
                                    arg |-> alerts[metric_name].display_name,
                                    name |-> 0,
                                    metric_name |-> metric_name]))

AddAlertsToStackdriver ==
    /\ pc = "published"
    /\ LET config == handler.regression_alert_config
       IN  IF ~DictGet(config, "write_to_stackdriver", FALSE)
           THEN /\ logged' = Append(logged, <<"info", "skipping alerts to Stackdriver">>)
                /\ pc' = "done"
                /\ UNCHANGED <<raised, calls, alert_policies,
                               metric_name_to_alert_dict, display_name_to_alert_id>>
           ELSE IF ~({"bigquery_dataset_name", "bigquery_table_name"}
                         \subseteq DOMAIN config)
           THEN /\ raised' = "KeyError: bigquery_dataset_name"
                /\ pc' = "raised"
                /\ UNCHANGED <<logged, calls, alert_policies,
                               metric_name_to_alert_dict, display_name_to_alert_id>>
           ELSE LET table_id == get_table_id(config.bigquery_dataset_name,
                                             config.bigquery_table_name)
                    list_rows == Call("bigquery", "list_rows", table_id)
                    list_channels ==
                        IF "notification_channel_display_names" \in DOMAIN config
                        THEN <<Call("notification", "list_notification_channels", "")>>
                        ELSE <<>>
                IN  IF table_id \notin DOMAIN bigquery
                    THEN /\ raised' = "NotFound: table"
                         /\ pc' = "raised"
                         /\ calls' = Append(calls, list_rows)
                         /\ UNCHANGED <<logged, alert_policies,
                                        metric_name_to_alert_dict,
                                        display_name_to_alert_id>>
                    ELSE IF compute_alert_bounds_raises(
                                handler, bigquery[table_id], new_metrics) # "none"
                    THEN /\ raised' = compute_alert_bounds_raises(
                                          handler, bigquery[table_id], new_metrics)
                         /\ pc' = "raised"
                         /\ calls' = calls \o <<list_rows>> \o list_channels
                         /\ logged' = logged \o notification_channels_log(config)
                         /\ UNCHANGED <<alert_policies, metric_name_to_alert_dict,
                                        display_name_to_alert_id>>
                    ELSE \E listing \in listing_by_display_name(alert_policies) :
                         \E alerts \in {compute_alert_bounds(
                                           handler, bigquery[table_id], new_metrics)} :
                         \E after \in {update_or_create(
                                          handler, key_list(DOMAIN alerts), alerts,
                                          listing, alert_policies, <<>>)} :
                             /\ metric_name_to_alert_dict' = alerts
                             /\ display_name_to_alert_id' = listing
                             /\ alert_policies' = after.policies
                             /\ calls' = calls
                                    \o <<list_rows>> \o list_channels
                                    \o <<Call("alert", "list_alert_policies", "")>>
                                    \o after.calls
                             /\ logged' = Append(
                                    logged \o notification_channels_log(config),
                                    <<"info", "added alerts to Stackdriver">>)
                             /\ pc' = "done"
                             /\ UNCHANGED raised
    /\ UNCHANGED <<raw_metrics, tensors, aggVars, derivedVars, event, handler, new_metrics,
                   bigquery, run, published_before>>

---------------------------------------------------------------------------
(* The runs of run_main *)

MaxRuns == 2

\* <<op, display name>> of every policy this run created or updated.
published_policies ==
    {<<calls[i].op, calls[i].arg>> : i \in {j \in 1..Len(calls) :
        /\ calls[j].client = "alert"
        /\ calls[j].op \in {"update_alert_policy", "create_alert_policy"}}}

\* The message is delivered again: run_main runs once more on it, on what
\* the earlier runs left in BigQuery and Stackdriver.
Trigger ==
    /\ pc = "done"
    /\ run < MaxRuns
    /\ run' = run + 1
    /\ published_before' = published_before \cup published_policies
    /\ pc' = "start"
    /\ raised' = "none"
    /\ logged' = <<>>
    /\ handler' = EmptyDict
    /\ new_metrics' = EmptyDict
    /\ calls' = <<>>
    /\ metric_name_to_alert_dict' = EmptyDict
    /\ display_name_to_alert_id' = EmptyDict
    /\ UNCHANGED <<raw_metrics, tensors, aggVars, derivedVars, event, bigquery,
                   alert_policies>>

NextMain ==
    \/ RunMainStart
    \/ GetMetricsFromEventsDir
    \/ \E insert_fails \in BOOLEAN : AddNewMetricsToBigquery(insert_fails)
    \/ AddNewMetricsToStackdriver
    \/ AddAlertsToStackdriver
    \/ Trigger

---------------------------------------------------------------------------
(* The messages, configs and stores the runs start from *)

MaxRows == 3
MaxHistory == 5

\* metric_collection_config as the README describes it.
CollectionConfig(write_to_bigquery) ==
    [default_aggregation_strategies |-> <<"final">>,
     write_to_bigquery |-> write_to_bigquery,
     bigquery_dataset_name |-> "xl_ml_metrics_dataset",
     bigquery_table_name |-> "xl_ml_metrics_table"]

\* regression_test_config as the README describes it, the optional keys apart.
RegressionConfig(write_to_stackdriver, minimum) ==
    [write_to_stackdriver |-> write_to_stackdriver,
     bigquery_dataset_name |-> "xl_ml_metrics_dataset",
     bigquery_table_name |-> "xl_ml_metrics_table",
     min_num_datapoints_before_alerting |-> minimum,
     base_threshold_expression |-> [stddev_coeff |-> 3],
     base_comparison |-> "COMPARISON_GT"]

MetricsTable == get_table_id("xl_ml_metrics_dataset", "xl_ml_metrics_table")

\* A message with its four strings and the two configs.
Message(collection_config, regression_config) ==
    [model_dir |-> JsonString("gs://bucket/model_dir"),
     test_name |-> JsonString("test_a"),
     logs_link |-> JsonString("https://logs"),
     job_name |-> JsonString("job-1"),
     metric_collection_config |-> collection_config,
     regression_test_config |-> regression_config]

\* A message whose fields are each missing, null, empty or given.
Absent == [type |-> "absent"]

MessageShapes ==
    LET full == Message(JsonObject(CollectionConfig(TRUE)),
                        JsonObject(RegressionConfig(TRUE, 1)))
        empty == [k \in DOMAIN full |->
                     IF full[k].type = "string" THEN JsonString("")
                     ELSE JsonObject(EmptyDict)]
        shapes == [DOMAIN full -> {"absent", "null", "empty", "given"}]
    IN  {[k \in {f \in DOMAIN full : shape[f] # "absent"} |->
             CASE shape[k] = "null"  -> JsonNull
               [] shape[k] = "empty" -> empty[k]
               [] shape[k] = "given" -> full[k]] : shape \in shapes}

\* A stored row.
Row(test_name, metric_name, metric_value) ==
    [test_name |-> test_name, metric_name |-> metric_name,
     metric_value |-> metric_value, timestamp |-> 0,
     stackdriver_logs_link |-> "https://logs"]

RowLists(rows, n) == UNION {[1..k -> rows] : k \in 0..n}

\* The events directory of a run that logged one accuracy value.
OneAccuracyPoint(metric_value) ==
    [accuracy |-> <<[metric_value |-> metric_value, wall_time |-> MaxTime]>>]

\* A policy a previous run left in Stackdriver.
StoredPolicy(name, test_name, metric_name) ==
    [name |-> name,
     display_name |-> "MetricOutsideExpectedBounds__TestName:" \o test_name
                          \o "__MetricName:" \o metric_name,
     comparison |-> "COMPARISON_GT",
     threshold_value |-> [n |-> 1, sum |-> 1, radicand |-> 0, stddev_coeff |-> 3],
     filter |-> "",
     notification_channels |-> {}]

\* Every shape of message, on an empty or a one-point events directory and
\* an empty metrics table.
InitMain ==
    /\ pc = "start"
    /\ raised = "none"
    /\ logged = <<>>
    /\ metrics = <<>>
    /\ strategy = "unset"
    /\ aggregated = NoPoint
    /\ permuted = <<>>
    /\ aggregated_permuted = NoPoint
    /\ raw_metrics \in {EmptyDict, OneAccuracyPoint(MaxValue)}
    /\ tensors = <<>>
    /\ tta_config = EmptyDict
    /\ metrics_to_update = EmptyDict
    /\ event \in MessageShapes
    /\ handler = EmptyDict
    /\ new_metrics = EmptyDict
    /\ bigquery = [t \in {MetricsTable} |-> <<>>]
    /\ alert_policies = {}
    /\ calls = <<>>
    /\ metric_name_to_alert_dict = EmptyDict
    /\ display_name_to_alert_id = EmptyDict
    /\ run = 1
    /\ published_before = {}

SpecMain == InitMain /\ [][NextMain]_vars

\* A valid message over every minimum and ignore list, on every metrics
\* table of at most MaxRows rows of two tests and two metrics.
InitAlerts ==
    /\ pc = "start"
    /\ raised = "none"
    /\ logged = <<>>
    /\ metrics = <<>>
    /\ strategy = "unset"
    /\ aggregated = NoPoint
    /\ permuted = <<>>
    /\ aggregated_permuted = NoPoint
    /\ raw_metrics \in {EmptyDict, OneAccuracyPoint(MaxValue)}
    /\ tensors = <<>>
    /\ tta_config = EmptyDict
    /\ metrics_to_update = EmptyDict
    /\ event \in {Message(JsonObject(CollectionConfig(write)),
                         JsonObject(RegressionConfig(TRUE, minimum)
                                        @@ [metrics_to_ignore |-> ignore])) :
                     write \in BOOLEAN, minimum \in 0..(MaxRows + 1),
                     ignore \in {<<>>, <<"accuracy_final">>, <<"loss_final">>}}
    /\ handler = EmptyDict
    /\ new_metrics = EmptyDict
    /\ bigquery \in {[t \in {MetricsTable} |-> rows] :
                        rows \in RowLists({Row("test_a", "accuracy_final", 1),
                                            Row("test_a", "loss_final", 1),
                                            Row("test_b", "loss_final", 1)},
                                          MaxRows)}
    /\ alert_policies = {}
    /\ calls = <<>>
    /\ metric_name_to_alert_dict = EmptyDict
    /\ display_name_to_alert_id = EmptyDict
    /\ run = 1
    /\ published_before = {}

SpecAlerts == InitAlerts /\ [][NextMain]_vars

\* A valid message with and without an opt-in list, on Stackdriver holding
\* any of three policies of distinct display names.
InitPublish ==
    /\ pc = "start"
    /\ raised = "none"
    /\ logged = <<>>
    /\ metrics = <<>>
    /\ strategy = "unset"
    /\ aggregated = NoPoint
    /\ permuted = <<>>
    /\ aggregated_permuted = NoPoint
    /\ raw_metrics \in {EmptyDict, OneAccuracyPoint(MaxValue)}
    /\ tensors = <<>>
    /\ tta_config = EmptyDict
    /\ metrics_to_update = EmptyDict
    /\ event \in {Message(JsonObject(CollectionConfig(write)),
                         JsonObject(RegressionConfig(publish, 1) @@ opt_in)) :
                     write \in BOOLEAN, publish \in BOOLEAN,
                     opt_in \in {EmptyDict,
                                 [metric_opt_in_list |-> <<>>],
                                 [metric_opt_in_list |-> <<"accuracy_final">>],
                                 [metric_opt_in_list |->
                                      <<"loss_final", "total_wall_time">>]}}
    /\ handler = EmptyDict
    /\ new_metrics = EmptyDict
    /\ bigquery \in {[t \in {MetricsTable} |-> rows] :
                        rows \in {<<>>, <<Row("test_a", "loss_final", 1)>>}}
    /\ alert_policies \in SUBSET {StoredPolicy(1, "test_a", "accuracy_final"),
                                   StoredPolicy(2, "test_a", "loss_final"),
                                   StoredPolicy(3, "test_b", "accuracy_final")}
    /\ calls = <<>>
    /\ metric_name_to_alert_dict = EmptyDict
    /\ display_name_to_alert_id = EmptyDict
    /\ run = 1
    /\ published_before = {}

SpecPublish == InitPublish /\ [][NextMain]_vars

\* A valid message with threshold v_mean + 3*v_stddev, on a history of at
\* most MaxHistory accuracy values 1 or 2 and a run that logs 1 or 2.
InitBounds ==
    /\ pc = "start"
    /\ raised = "none"
    /\ logged = <<>>
    /\ metrics = <<>>
    /\ strategy = "unset"
    /\ aggregated = NoPoint
    /\ permuted = <<>>
    /\ aggregated_permuted = NoPoint
    /\ raw_metrics \in {OneAccuracyPoint(v) : v \in {1, 2}}
    /\ tensors = <<>>
    /\ tta_config = EmptyDict
    /\ metrics_to_update = EmptyDict
    /\ event \in {Message(JsonObject(CollectionConfig(FALSE)),
                         JsonObject(RegressionConfig(TRUE, minimum))) :
                     minimum \in {1, MaxHistory + 1, MaxHistory + 2}}
    /\ handler = EmptyDict
    /\ new_metrics = EmptyDict
    /\ bigquery \in {[t \in {MetricsTable} |-> rows] :
                        rows \in RowLists({Row("test_a", "accuracy_final", v) :
                                              v \in {1, 2}}, MaxHistory)}
    /\ alert_policies = {}
    /\ calls = <<>>
    /\ metric_name_to_alert_dict = EmptyDict
    /\ display_name_to_alert_id = EmptyDict
    /\ run = 1
    /\ published_before = {}

SpecBounds == InitBounds /\ [][NextMain]_vars

---------------------------------------------------------------------------
\* The alerts of this run have been computed and published.
AlertsPublished ==
    /\ pc = "done"
    /\ DictGet(handler.regression_alert_config, "write_to_stackdriver", FALSE)

\* The rows _compute_alert_bounds read.
HistoryRows ==
    LET config == handler.regression_alert_config
    IN  bigquery[get_table_id(config.bigquery_dataset_name,
                              config.bigquery_table_name)]

\* The number of stored points of a metric of this test.
StoredPoints(metric_name) ==
    Cardinality({i \in 1..Len(HistoryRows) :
        /\ HistoryRows[i].test_name = handler.test_name
        /\ HistoryRows[i].metric_name = metric_name})

\* Stored points plus the new run's point when there is one.
PointCount(metric_name) ==
    StoredPoints(metric_name) + (IF metric_name \in DOMAIN new_metrics THEN 1 ELSE 0)

\* A threshold (sum + k*sqrt(radicand))/n against a whole number.
Exceeds(value, threshold) ==
    LET d == value * threshold.n - threshold.sum
    IN  /\ d > 0
        /\ d * d > threshold.stddev_coeff * threshold.stddev_coeff * threshold.radicand

ThresholdIs(threshold, value) ==
    LET d == value * threshold.n - threshold.sum
    IN  /\ d >= 0
        /\ d * d = threshold.stddev_coeff * threshold.stddev_coeff * threshold.radicand

\* The stored history of accuracy_final is five points of value 1, the
\* expression is v_mean + 3*v_stddev and the minimum is within the count.
FiveOnes ==
    /\ AlertsPublished
    /\ HistoryRows = [i \in 1..5 |-> Row("test_a", "accuracy_final", 1)]
    /\ "accuracy_final" \in DOMAIN new_metrics
    /\ handler.regression_alert_config.base_threshold_expression.stddev_coeff = 3
    /\ handler.regression_alert_config.min_num_datapoints_before_alerting
           <= PointCount("accuracy_final")

(* C1, as stated: on a history of five points of value 1 the threshold of   *)
(* v_mean + 3*v_stddev is 1; a new value of 1 does not exceed it and a new  *)
(* value of 2 does.                                                         *)
C1_ThresholdOfHistory ==
    FiveOnes =>
        /\ "accuracy_final" \in DOMAIN metric_name_to_alert_dict
        /\ LET threshold == metric_name_to_alert_dict["accuracy_final"].threshold_value
               value == new_metrics["accuracy_final"].metric_value
           IN  /\ ThresholdIs(threshold, 1)
               /\ value = 1 => ~Exceeds(1, threshold)
               /\ value = 2 => Exceeds(2, threshold)

(* C1, amended: on a history of five points of value 1 the threshold of     *)
(* v_mean + 3*v_stddev is computed over the six points that include the new *)
(* value v, (5 + v + 3*sqrt(6*(5 + v*v) - (5 + v)*(5 + v)))/6: for v = 1 it  *)
(* is 1 and 1 does not exceed it, for v = 2 it is (7 + 3*sqrt(5))/6 and 2    *)
(* does not exceed it either.                                               *)
C1_ThresholdOfCombined ==
    FiveOnes =>
        /\ "accuracy_final" \in DOMAIN metric_name_to_alert_dict
        /\ LET threshold == metric_name_to_alert_dict["accuracy_final"].threshold_value
               value == new_metrics["accuracy_final"].metric_value
           IN  /\ threshold.n = 6
               /\ threshold.sum = 5 + value
               /\ threshold.radicand =
                      6 * (5 + value * value) - (5 + value) * (5 + value)
               /\ threshold.stddev_coeff = 3
               /\ ~Exceeds(value, threshold)
               /\ value = 1 => ThresholdIs(threshold, 1)
               /\ value = 2 => (threshold.sum = 7 /\ threshold.radicand = 5)

\* The run logged 2 on a history of five 1s, with the minimum at the count.
C1_Witness ==
    /\ FiveOnes
    /\ new_metrics["accuracy_final"].metric_value = 2
    /\ handler.regression_alert_config.min_num_datapoints_before_alerting = 6
    /\ "accuracy_final" \in DOMAIN metric_name_to_alert_dict

\* Every metric name of the table and of the run, and one of neither.
KnownNames ==
    {HistoryRows[i].metric_name : i \in 1..Len(HistoryRows)}
        \cup DOMAIN new_metrics \cup {"never_logged"}

(* C2: _compute_alert_bounds returns an alert for m exactly when m occurs   *)
(* in the history of the test or in new_metrics, m is not in                *)
(* metrics_to_ignore, and the points of m (stored, plus the new run's when  *)
(* present) number at least min_num_datapoints_before_alerting.             *)
C2_AlertIffEnoughPoints ==
    AlertsPublished =>
        LET config == handler.regression_alert_config
        IN  \A m \in KnownNames :
                m \in DOMAIN metric_name_to_alert_dict <=>
                    /\ StoredPoints(m) > 0 \/ m \in DOMAIN new_metrics
                    /\ m \notin Range(DictGet(config, "metrics_to_ignore", <<>>))
                    /\ PointCount(m) >= config.min_num_datapoints_before_alerting

\* One metric has exactly the minimum of points and an alert, a metric of
\* the run has fewer and none, and an ignored metric has enough and none.
C2_Witness ==
    /\ AlertsPublished
    /\ LET config == handler.regression_alert_config
           minimum == config.min_num_datapoints_before_alerting
       IN  /\ \E m \in DOMAIN metric_name_to_alert_dict :
                  PointCount(m) = minimum /\ StoredPoints(m) > 0
           /\ \E m \in DOMAIN new_metrics :
                  PointCount(m) < minimum /\ m \notin DOMAIN metric_name_to_alert_dict
           /\ \E m \in Range(config.metrics_to_ignore) :
                  PointCount(m) >= minimum /\ m \notin DOMAIN metric_name_to_alert_dict

\* The update and create calls of this run for one display name.
PolicyCalls(display_name) ==
    {i \in 1..Len(calls) :
        /\ calls[i].client = "alert"
        /\ calls[i].op \in {"update_alert_policy", "create_alert_policy"}
        /\ calls[i].arg = display_name}

(* C3: for each published metric add_alerts_to_stackdriver makes one call:  *)
(* an update carrying the listed policy's name when a policy of the         *)
(* metric's display name was listed, a create otherwise; a run never        *)
(* creates a policy of a display name an earlier run published, a second or *)
(* later run of the same message creates none, and Stackdriver never holds  *)
(* two policies of one display name.                                        *)
C3_UpdateOrCreateOnce ==
    /\ \A p, q \in alert_policies : p.display_name = q.display_name => p = q
    /\ AlertsPublished =>
           \A m \in {k \in DOMAIN metric_name_to_alert_dict : ~opted_out(handler, k)} :
               LET d == metric_name_to_alert_display_name(handler, m)
               IN  /\ Cardinality(PolicyCalls(d)) = 1
                   /\ \A i \in PolicyCalls(d) :
                          IF d \in DOMAIN display_name_to_alert_id
                          THEN /\ calls[i].op = "update_alert_policy"
                               /\ calls[i].name = display_name_to_alert_id[d]
                               /\ \E p \in alert_policies :
                                      p.name = calls[i].name /\ p.display_name = d
                          ELSE calls[i].op = "create_alert_policy"
    /\ \A i \in 1..Len(calls) :
           (calls[i].client = "alert" /\ calls[i].op = "create_alert_policy") =>
               \A op \in {"update_alert_policy", "create_alert_policy"} :
                   <<op, calls[i].arg>> \notin published_before
    /\ run > 1 =>
           \A i \in 1..Len(calls) :
               calls[i].client = "alert" => calls[i].op # "create_alert_policy"

\* The second run updated a policy that the first run had created.
C3_Witness ==
    /\ AlertsPublished
    /\ run = 2
    /\ \E i \in 1..Len(calls) :
           /\ calls[i].client = "alert"
           /\ calls[i].op = "update_alert_policy"
           /\ <<"create_alert_policy", calls[i].arg>> \in published_before

(* C9: when regression_test_config gives metric_opt_in_list (any list, the  *)
(* empty one included) alert policies are created or updated, and time      *)
(* series are written, only for the metric names of the list.               *)
C9_OnlyOptedIn ==
    (pc \in {"published", "done"}
         /\ "metric_opt_in_list" \in DOMAIN handler.regression_alert_config) =>
        LET opt_in == Range(handler.regression_alert_config.metric_opt_in_list)
        IN  \A i \in 1..Len(calls) :
                /\ (calls[i].client = "alert"
                        /\ calls[i].op \in {"update_alert_policy", "create_alert_policy"})
                       => calls[i].metric_name \in opt_in
                /\ (calls[i].client = "monitoring" /\ calls[i].op = "create_time_series")
                       => \A series \in calls[i].arg : series.metric_name \in opt_in

\* The four strings and the two configs as run_main reads them.
RequiredStrings == {"model_dir", "test_name", "logs_link", "job_name"}
Configs == {"metric_collection_config", "regression_test_config"}

\* run_main raised before it constructed the handler.
Rejected == pc = "raised" /\ handler = EmptyDict

(* C10, as stated: run_main raises before any collaborator is contacted     *)
(* exactly when both configs are null or one of the four strings is not     *)
(* present.                                                                 *)
C10_RejectedIffNull ==
    (pc # "start") =>
        /\ Rejected <=>
               ~(/\ \E c \in Configs : event_get(event, c).type # "null"
                 /\ \A f \in RequiredStrings : event_get(event, f).type # "null")
        /\ Rejected => calls = <<>>

(* C10, amended: run_main raises ValueError before any collaborator is      *)
(* contacted exactly when both configs are null, missing or empty ({}), or  *)
(* one of the four strings is null, missing or empty ('').                  *)
C10_RejectedIffFalsy ==
    (pc # "start") =>
        /\ Rejected <=>
               ~(/\ \E c \in Configs :
                        /\ event_get(event, c).type # "null"
                        /\ event_get(event, c).value # EmptyDict
                 /\ \A f \in RequiredStrings :
                        /\ event_get(event, f).type # "null"
                        /\ event_get(event, f).value # "")
        /\ Rejected => (calls = <<>> /\ raised # "none")
        /\ ~Rejected => Len(calls) >= Len(client_constructions)

\* A message with its four strings whose only config is {} was rejected.
C10_Witness ==
    /\ Rejected
    /\ calls = <<>>
    /\ \A f \in RequiredStrings : truthy(event_get(event, f))
    /\ event_get(event, "metric_collection_config") = JsonObject(EmptyDict)
    /\ event_get(event, "regression_test_config") = JsonNull

---------------------------------------------------------------------------
\* The steps of one run of run_main: sequential code, each call returns and
\* the next statement runs.
RunMainStep ==
    \/ RunMainStart
    \/ GetMetricsFromEventsDir
    \/ \E insert_fails \in BOOLEAN : AddNewMetricsToBigquery(insert_fails)
    \/ AddNewMetricsToStackdriver
    \/ AddAlertsToStackdriver

\* The runs of SpecPublish, each one running on to its end.
SpecPublishRuns == InitPublish /\ [][NextMain]_vars /\ WF_vars(RunMainStep)

\* The calls of this run to one operation of one client.
CallsOf(client, op) ==
    {i \in 1..Len(calls) : calls[i].client = client /\ calls[i].op = op}

\* insert_rows reported errors in this run.
InsertFailed ==
    <<"error", "failed to add metrics to bigquery">> \in Range(logged)

\* The alerts of every metric of the run that is not opted out are in
\* Stackdriver, by one update or create each.
AlertsOfRunPublished ==
    /\ Cardinality(CallsOf("alert", "list_alert_policies")) = 1
    /\ \A m \in {k \in DOMAIN new_metrics : ~opted_out(handler, k)} :
           /\ m \in DOMAIN metric_name_to_alert_dict
           /\ Cardinality(PolicyCalls(metric_name_to_alert_display_name(handler, m))) = 1
           /\ \E p \in alert_policies :
                  p.display_name = metric_name_to_alert_display_name(handler, m)

(* C11: when insert_rows reports errors add_new_metrics_to_bigquery logs    *)
(* the failure, makes no second insert, raises nothing and leaves the table *)
(* as it was; the run then goes on to add_new_metrics_to_stackdriver and    *)
(* add_alerts_to_stackdriver, and ends with its alerts computed and         *)
(* published when write_to_stackdriver is set.                              *)
C11_InsertFailureNotFatal ==
    /\ [][(pc = "collected" /\ Len(calls') > Len(calls) /\ ~InsertFailed') =>
              bigquery' # bigquery]_vars
    /\ [][(pc = "collected" /\ InsertFailed') =>
              /\ bigquery' = bigquery
              /\ raised' = "none"
              /\ pc' = "persisted"
              /\ Len(calls') = Len(calls) + 4
              /\ calls'[Len(calls')].op = "insert_rows"]_vars
    /\ [](InsertFailed =>
              /\ raised = "none"
              /\ pc \in {"persisted", "published", "done"}
              /\ Cardinality(CallsOf("bigquery", "insert_rows")) = 1)
    /\ (InsertFailed /\ pc = "persisted") ~>
           /\ InsertFailed
           /\ pc = "done"
           /\ handler.regression_alert_config.write_to_stackdriver =>
                  /\ Cardinality(CallsOf("monitoring", "create_time_series")) = 1
                  /\ AlertsOfRunPublished

\* A run whose insert failed ended with an alert policy created.
C11_Witness ==
    /\ InsertFailed
    /\ pc = "done"
    /\ CallsOf("alert", "create_alert_policy") # {}
    /\ AlertsOfRunPublished

---------------------------------------------------------------------------
(* The tensor observations of an events directory *)

MaxTensors == 2
MaxBytes == 2

\* A tensor observation: its tag, the bytes of tensor_proto.tensor_content,
\* the size of an item of tensor_proto.dtype, and its wall_time.
TensorEvents ==
    [tag : {"accuracy", "loss"},
     tensor_content : UNION {[1..k -> {1}] : k \in 0..MaxBytes},
     itemsize : {1, 2},
     wall_time : {MaxTime}]

\* A message that only collects, over every list of at most MaxTensors
\* tensor observations and with or without an ignored tag.
InitCollect ==
    /\ pc = "start"
    /\ raised = "none"
    /\ logged = <<>>
    /\ metrics = <<>>
    /\ strategy = "unset"
    /\ aggregated = NoPoint
    /\ permuted = <<>>
    /\ aggregated_permuted = NoPoint
    /\ raw_metrics \in {EmptyDict, OneAccuracyPoint(MaxValue)}
    /\ tensors \in UNION {[1..k -> TensorEvents] : k \in 0..MaxTensors}
    /\ tta_config = EmptyDict
    /\ metrics_to_update = EmptyDict
    /\ event \in {Message(JsonObject(CollectionConfig(FALSE)
                                        @@ [tags_to_ignore |-> ignore]),
                         JsonNull) : ignore \in {<<>>, <<"loss">>}}
    /\ handler = EmptyDict
    /\ new_metrics = EmptyDict
    /\ bigquery = [t \in {MetricsTable} |-> <<>>]
    /\ alert_policies = {}
    /\ calls = <<>>
    /\ metric_name_to_alert_dict = EmptyDict
    /\ display_name_to_alert_id = EmptyDict
    /\ run = 1
    /\ published_before = {}

SpecCollect == InitCollect /\ [][NextMain]_vars

\* get_metrics_from_events_dir has returned or raised in this run.
Collected == pc \notin {"start", "constructed"}

\* The observations of the tags that are not ignored, by position.
Observed ==
    {i \in 1..Len(tensors) :
        tensors[i].tag \notin
            Range(DictGet(handler.metric_collection_config, "tags_to_ignore", <<>>))}

\* The buffer of the observation decodes to exactly one value.
DecodesToOne(i) ==
    LET decoded == frombuffer(tensors[i].tensor_content, tensors[i].itemsize)
    IN  decoded.raised = "none" /\ Len(decoded.val) = 1

(* C12: an observation whose buffer does not decode, or does not decode to  *)
(* exactly one value, is dropped and logged; get_metrics_from_events_dir    *)
(* does not abort, and the tag of every other observation that is not       *)
(* ignored is among the metrics it returns.                                 *)
C12_DecodeFailureDropsOne ==
    Collected =>
        /\ raised = "none"
        /\ \A i \in Observed :
               IF DecodesToOne(i)
               THEN aggregated_key(tensors[i].tag, "final") \in DOMAIN new_metrics
               ELSE <<"error", "unable to parse tag", tensors[i].tag>> \in Range(logged)

---------------------------------------------------------------------------
\* The rows of the table before this run inserted its own: insert_rows
\* appends one row per new metric when it reports no error.
PriorRows ==
    IF <<"info", "added metrics to bigquery">> \in Range(logged)
    THEN SubSeq(HistoryRows, 1, Len(HistoryRows) - Cardinality(DOMAIN new_metrics))
    ELSE HistoryRows

\* The points earlier runs of this test stored for a metric.
PriorPoints(metric_name) ==
    Cardinality({i \in 1..Len(PriorRows) :
        /\ PriorRows[i].test_name = handler.test_name
        /\ PriorRows[i].metric_name = metric_name})

(* C13: in every run the list _compute_alert_bounds gates and averages for  *)
(* a metric of the run is the points of the earlier runs and the run's own  *)
(* value once, also when the run wrote its metrics to the table it reads.   *)
C13_CurrentValueOnce ==
    AlertsPublished =>
        LET config == handler.regression_alert_config
        IN  \A m \in DOMAIN new_metrics
                     \ Range(DictGet(config, "metrics_to_ignore", <<>>)) :
                /\ m \in DOMAIN metric_name_to_alert_dict <=>
                       PriorPoints(m) + 1 >= config.min_num_datapoints_before_alerting
                /\ m \in DOMAIN metric_name_to_alert_dict =>
                       metric_name_to_alert_dict[m].threshold_value.n
                           = PriorPoints(m) + 1

===========================================================================
